---- MODULE Spec2Model ----
(***************************************************************************)
(* Departmental cost allocation: lambda_handler walks the OU tree of an    *)
(* AWS Organization and reconciles one cost category per top-level OU.     *)
(*                                                                         *)
(* The directory (Organizations) and the classification store (Cost        *)
(* Explorer) are the state; a remote call that fails raises ClientError.   *)
(* Which calls fail is an input of every operation: a set of failure       *)
(* points [op, id, page], one per remote request.                          *)
(***************************************************************************)
EXTENDS Integers, Sequences, FiniteSets, TLC

\* ------------------------------------------------------------------ bounds
PageSize       == 1     \* items on one page of a paginated listing
MaxFailures    == 2     \* failing requests in one call of get_accounts_by_ou
MaxRunFailures == 1     \* failing requests in one run of lambda_handler
MaxRuns        == 2     \* runs of lambda_handler in one behaviour

\* ------------------------------------------------------------ universe
Root     == 0
Gone     == Root - 1
OUs      == {1, 2, 3}
Accounts == {1, 2, 3}
OUNames  == {"Finance", "Engineering", "Sales"}
Statuses == {"ACTIVE", "SUSPENDED"}
None     == "<None>"

VARIABLES
    ouParent,   \* directory: OU id -> parent id (Root or an OU), or Gone
    ouName,     \* directory: OU id -> display name
    acct,       \* directory: account id -> [Name, Status, Parent]
    store,      \* classification store: sequence of definitions
    store0,     \* the store as the latest run of lambda_handler found it
    log,        \* the latest run: one record per top-level OU iterated
    outcome,    \* the latest run's return value
    runs,       \* runs of lambda_handler so far
    arg,        \* get_accounts_by_ou called directly: its ou_id
    fset,       \* the failing requests of the latest call or run
    result      \* what get_accounts_by_ou returned

dirVars == <<ouParent, ouName, acct>>
runVars == <<store, store0, log, outcome, runs>>
vars    == <<ouParent, ouName, acct, store, store0, log, outcome, runs,
             arg, fset, result>>

\* ------------------------------------------------------------- helpers
Min(a, b) == IF a < b THEN a ELSE b

RECURSIVE SortedSeq(_)
SortedSeq(S) ==
    IF S = {} THEN <<>>
    ELSE LET m == CHOOSE x \in S : \A y \in S : x <= y
         IN <<m>> \o SortedSeq(S \ {m})

RECURSIVE Concat(_)
Concat(ss) == IF ss = <<>> THEN <<>> ELSE Head(ss) \o Concat(Tail(ss))

Range(s) == {s[i] : i \in 1..Len(s)}

\* ----------------------------------------------------- directory service
\* list_children(ParentId, ChildType='ORGANIZATIONAL_UNIT'): the whole listing
ListChildren(p) == SortedSeq({o \in OUs : ouParent[o] = p})

\* list_accounts_for_parent(ParentId): the whole listing, every status
ListAccounts(p) ==
    LET ids == SortedSeq({a \in Accounts : acct[a].Parent = p})
    IN [i \in 1..Len(ids) |->
          [Id |-> ids[i], Name |-> acct[ids[i]].Name, Status |-> acct[ids[i]].Status]]

\* paginator.paginate: the listing cut into pages; an empty listing is one empty page
NumPages(items) ==
    IF Len(items) = 0 THEN 1 ELSE (Len(items) + PageSize - 1) \div PageSize

Paginate(items) ==
    [p \in 1..NumPages(items) |->
        SubSeq(items, (p - 1) * PageSize + 1, Min(p * PageSize, Len(items)))]

\* One remote request: operation, the id it is about, the page asked for.
Point(op, id, page) == [op |-> op, id |-> id, page |-> page]

\* The first page whose request raises ClientError, 0 when every page arrives.
FirstFail(op, id, n, F) ==
    IF \E p \in 1..n : Point(op, id, p) \in F
    THEN CHOOSE p \in 1..n :
            /\ Point(op, id, p) \in F
            /\ \A q \in 1..(p - 1) : Point(op, id, q) \notin F
    ELSE 0

\* The items of the pages that arrived before the failure (all, without one).
Arrived(pages, ff) ==
    Concat(SubSeq(pages, 1, IF ff = 0 THEN Len(pages) ELSE ff - 1))

\* lines 13-18: keep the ACTIVE accounts, as {Id, Name}
ActiveOnly_NoFilter(items) ==
    [i \in 1..Len(items) |-> [Id |-> items[i].Id, Name |-> items[i].Name]]

ActiveOnly(items) ==
    LET act == SelectSeq(items, LAMBDA a : a.Status = "ACTIVE")
    IN [i \in 1..Len(act) |-> [Id |-> act[i].Id, Name |-> act[i].Name]]

\* ------------------------------------------------------ get_accounts_by_ou
RECURSIVE get_accounts_by_ou(_, _)

\* Variant: the child OUs are never visited.
get_accounts_by_ou_DirectOnly(ou_id, F) ==
    LET apages == Paginate(ListAccounts(ou_id))
        af     == FirstFail("list_accounts_for_parent", ou_id, Len(apages), F)
    IN ActiveOnly(Arrived(apages, af))

\* Variant: a failed account listing is logged and the child OUs are visited
\* all the same.
get_accounts_by_ou_ContinueAfterAccountError(ou_id, F) ==
    LET apages   == Paginate(ListAccounts(ou_id))
        af       == FirstFail("list_accounts_for_parent", ou_id, Len(apages), F)
        accounts == ActiveOnly(Arrived(apages, af))
        cpages   == Paginate(ListChildren(ou_id))
        cf       == FirstFail("list_children", ou_id, Len(cpages), F)
        kids     == Arrived(cpages, cf)
    IN accounts \o Concat([i \in 1..Len(kids) |-> get_accounts_by_ou(kids[i], F)])

\* Variant: a failed child listing returns an empty list.
get_accounts_by_ou_ChildErrorDropsAll(ou_id, F) ==
    LET apages   == Paginate(ListAccounts(ou_id))
        af       == FirstFail("list_accounts_for_parent", ou_id, Len(apages), F)
        accounts == ActiveOnly(Arrived(apages, af))
    IN IF af # 0
       THEN accounts
       ELSE LET cpages == Paginate(ListChildren(ou_id))
                cf     == FirstFail("list_children", ou_id, Len(cpages), F)
                kids   == Arrived(cpages, cf)
            IN IF cf # 0 THEN <<>>
               ELSE accounts \o
                    Concat([i \in 1..Len(kids) |-> get_accounts_by_ou(kids[i], F)])

get_accounts_by_ou(ou_id, F) ==
    LET apages   == Paginate(ListAccounts(ou_id))
        af       == FirstFail("list_accounts_for_parent", ou_id, Len(apages), F)
        accounts == ActiveOnly(Arrived(apages, af))
    IN IF af # 0
       THEN accounts                                  \* except: return accounts
       ELSE LET cpages == Paginate(ListChildren(ou_id))
                cf     == FirstFail("list_children", ou_id, Len(cpages), F)
                kids   == Arrived(cpages, cf)
            IN accounts \o
               Concat([i \in 1..Len(kids) |-> get_accounts_by_ou(kids[i], F)])

\* ---------------------------------------------------------- get_ou_details
get_ou_details(ou_id, F) ==
    IF Point("describe_organizational_unit", ou_id, 0) \in F
    THEN None                                         \* except: return None
    ELSE ouName[ou_id]

\* ------------------------------------------------- classification store
\* A definition: [Name, CostCategoryArn, Rules, DefaultValue].
NewArn(defs) == Len(defs) + 1

\* create_cost_category_definition(Name, RuleVersion, Rules, DefaultValue)
StoreCreate(defs, name, rules, default) ==
    Append(defs, [Name |-> name, CostCategoryArn |-> NewArn(defs),
                  Rules |-> rules, DefaultValue |-> default])

\* update_cost_category_definition(CostCategoryArn, RuleVersion, Rules)
StoreUpdate(defs, arn, rules) ==
    [i \in 1..Len(defs) |->
        IF defs[i].CostCategoryArn = arn
        THEN [defs[i] EXCEPT !.Rules = rules]
        ELSE defs[i]]

\* One request to the store, as issued: absent arguments are "" / 0 / <<>>.
Call(op, name, arn, rules, default, ok) ==
    [op |-> op, Name |-> name, CostCategoryArn |-> arn, Rules |-> rules,
     DefaultValue |-> default, ok |-> ok]

\* str(e) of the ClientError an operation raises
ErrorText(op) == "ClientError calling " \o op

\* ------------------------------------------ create_or_update_cost_category
CategoryName(ou_name) == "OU-" \o ou_name

BuildRules(ou_name, account_ids) ==
    << [Value |-> ou_name,
        Rule  |-> [Dimensions |-> [Key          |-> "LINKED_ACCOUNT",
                                   Values       |-> account_ids,
                                   MatchOptions |-> <<"EQUALS">>]]] >>

\* Variant: the existence check is skipped, every call creates.
create_or_update_cost_category_AlwaysCreate(ce_client, ou_name, account_ids) ==
    LET category_name == CategoryName(ou_name)
        existing      == ce_client.defs
        listCall(ok)  == Call("list_cost_category_definitions", "", 0, <<>>, "", ok)
        rules         == BuildRules(ou_name, account_ids)
        ret(d, c)     == [defs |-> d, calls |-> c, exc |-> None]
    IN IF "list_cost_category_definitions" \in ce_client.failing
       THEN ret(existing, <<listCall(FALSE)>>)
       ELSE LET ok == "create_cost_category_definition" \notin ce_client.failing
            IN ret(IF ok THEN StoreCreate(existing, category_name, rules, "Other")
                         ELSE existing,
                   <<listCall(TRUE),
                     Call("create_cost_category_definition", category_name, 0,
                          rules, "Other", ok)>>)

\* Variant: the update takes the ARN of the first definition listed, not of
\* the one whose name matches.
create_or_update_cost_category_UpdateFirst(ce_client, ou_name, account_ids) ==
    LET category_name == CategoryName(ou_name)
        existing      == ce_client.defs
        listCall(ok)  == Call("list_cost_category_definitions", "", 0, <<>>, "", ok)
        rules         == BuildRules(ou_name, account_ids)
        matches       == {i \in 1..Len(existing) : existing[i].Name = category_name}
        ret(d, c)     == [defs |-> d, calls |-> c, exc |-> None]
    IN IF "list_cost_category_definitions" \in ce_client.failing
       THEN ret(existing, <<listCall(FALSE)>>)
       ELSE IF matches # {}
       THEN LET arn == existing[1].CostCategoryArn
                ok  == "update_cost_category_definition" \notin ce_client.failing
            IN ret(IF ok THEN StoreUpdate(existing, arn, rules) ELSE existing,
                   <<listCall(TRUE),
                     Call("update_cost_category_definition", "", arn, rules, "", ok)>>)
       ELSE LET ok == "create_cost_category_definition" \notin ce_client.failing
            IN ret(IF ok THEN StoreCreate(existing, category_name, rules, "Other")
                         ELSE existing,
                   <<listCall(TRUE),
                     Call("create_cost_category_definition", category_name, 0,
                          rules, "Other", ok)>>)

\* Variant: no try/except, a ClientError of the store leaves the function.
create_or_update_cost_category_Raises(ce_client, ou_name, account_ids) ==
    LET category_name == CategoryName(ou_name)
        existing      == ce_client.defs
        listCall(ok)  == Call("list_cost_category_definitions", "", 0, <<>>, "", ok)
        rules         == BuildRules(ou_name, account_ids)
        matches       == {i \in 1..Len(existing) : existing[i].Name = category_name}
        ret(d, c, op, ok) ==
            [defs |-> d, calls |-> c, exc |-> IF ok THEN None ELSE ErrorText(op)]
    IN IF "list_cost_category_definitions" \in ce_client.failing
       THEN ret(existing, <<listCall(FALSE)>>, "list_cost_category_definitions", FALSE)
       ELSE IF matches # {}
       THEN LET first == CHOOSE i \in matches : \A j \in matches : i <= j
                arn   == existing[first].CostCategoryArn
                ok    == "update_cost_category_definition" \notin ce_client.failing
            IN ret(IF ok THEN StoreUpdate(existing, arn, rules) ELSE existing,
                   <<listCall(TRUE),
                     Call("update_cost_category_definition", "", arn, rules, "", ok)>>,
                   "update_cost_category_definition", ok)
       ELSE LET ok == "create_cost_category_definition" \notin ce_client.failing
            IN ret(IF ok THEN StoreCreate(existing, category_name, rules, "Other")
                         ELSE existing,
                   <<listCall(TRUE),
                     Call("create_cost_category_definition", category_name, 0,
                          rules, "Other", ok)>>,
                   "create_cost_category_definition", ok)

\* Variant: a matching definition is deleted and created anew.
create_or_update_cost_category_Recreate(ce_client, ou_name, account_ids) ==
    LET category_name == CategoryName(ou_name)
        existing      == ce_client.defs
        listCall(ok)  == Call("list_cost_category_definitions", "", 0, <<>>, "", ok)
        rules         == BuildRules(ou_name, account_ids)
        others        == SelectSeq(existing, LAMBDA d : d.Name # category_name)
        ok            == "create_cost_category_definition" \notin ce_client.failing
    IN IF "list_cost_category_definitions" \in ce_client.failing
       THEN [defs |-> existing, calls |-> <<listCall(FALSE)>>, exc |-> None]
       ELSE [defs  |-> IF ok THEN StoreCreate(others, category_name, rules, "Other")
                             ELSE others,
             calls |-> <<listCall(TRUE),
                         Call("create_cost_category_definition", category_name, 0,
                              rules, "Other", ok)>>,
             exc   |-> None]

\* ce_client = [defs: the store's definitions, failing: the operations that
\* raise ClientError during this call].  Returns the store afterwards, the
\* requests issued and the exception that leaves the function (None: none).
create_or_update_cost_category(ce_client, ou_name, account_ids) ==
    LET category_name == CategoryName(ou_name)
        existing      == ce_client.defs
        listCall(ok)  == Call("list_cost_category_definitions", "", 0, <<>>, "", ok)
        rules         == BuildRules(ou_name, account_ids)
        matches       == {i \in 1..Len(existing) : existing[i].Name = category_name}
        ret(d, c)     == [defs |-> d, calls |-> c, exc |-> None]
    IN IF "list_cost_category_definitions" \in ce_client.failing
       THEN ret(existing, <<listCall(FALSE)>>)
       ELSE IF matches # {}
       THEN LET first == CHOOSE i \in matches : \A j \in matches : i <= j
                arn   == existing[first].CostCategoryArn
                ok    == "update_cost_category_definition" \notin ce_client.failing
            IN ret(IF ok THEN StoreUpdate(existing, arn, rules) ELSE existing,
                   <<listCall(TRUE),
                     Call("update_cost_category_definition", "", arn, rules, "", ok)>>)
       ELSE LET ok == "create_cost_category_definition" \notin ce_client.failing
            IN ret(IF ok THEN StoreCreate(existing, category_name, rules, "Other")
                         ELSE existing,
                   <<listCall(TRUE),
                     Call("create_cost_category_definition", category_name, 0,
                          rules, "Other", ok)>>)

\* ---------------------------------------------------------- lambda_handler
JsonDumps(s) == "\"" \o s \o "\""

Response200 ==
    [statusCode |-> 200, body |-> JsonDumps("Cost categories updated successfully")]

Response500(e) == [statusCode |-> 500, body |-> JsonDumps("Error: " \o e)]

Truthy(x) == x # None /\ x # ""

\* The operations of the store that fail while top-level OU ou is reconciled.
FailingFor(ou, F) ==
    {p.op : p \in {q \in F : q.id = ou /\ q.page = 0}}

\* Variant: the reconciler is called whatever the account list holds.
LoopBody_NoEmptyCheck(ou, defs, F) ==
    LET ou_name == get_ou_details(ou, F)
        entry(c, ids, calls) ==
            [ou |-> ou, ou_name |-> ou_name, collected |-> c,
             account_ids |-> ids, found |-> defs, calls |-> calls]
    IN IF ~Truthy(ou_name)
       THEN [defs |-> defs, exc |-> None, entry |-> entry(FALSE, <<>>, <<>>)]
       ELSE LET accounts    == get_accounts_by_ou(ou, F)
                account_ids == [i \in 1..Len(accounts) |-> accounts[i].Id]
                r == create_or_update_cost_category(
                        [defs |-> defs, failing |-> FailingFor(ou, F)],
                        ou_name, account_ids)
            IN [defs |-> r.defs, exc |-> r.exc,
                entry |-> entry(TRUE, account_ids, r.calls)]

\* Variant: an OU whose name lookup failed is processed like any other.
LoopBody_NoNameCheck(ou, defs, F) ==
    LET ou_name     == get_ou_details(ou, F)
        accounts    == get_accounts_by_ou(ou, F)
        account_ids == [i \in 1..Len(accounts) |-> accounts[i].Id]
        entry(calls) ==
            [ou |-> ou, ou_name |-> ou_name, collected |-> TRUE,
             account_ids |-> account_ids, found |-> defs, calls |-> calls]
    IN IF account_ids # <<>>
       THEN LET r == create_or_update_cost_category(
                        [defs |-> defs, failing |-> FailingFor(ou, F)],
                        ou_name, account_ids)
            IN [defs |-> r.defs, exc |-> r.exc, entry |-> entry(r.calls)]
       ELSE [defs |-> defs, exc |-> None, entry |-> entry(<<>>)]

\* lines 104-115: one iteration; defs is the store as the iteration finds it.
LoopBody(ou, defs, F) ==
    LET ou_name == get_ou_details(ou, F)
        entry(c, ids, calls) ==
            [ou |-> ou, ou_name |-> ou_name, collected |-> c,
             account_ids |-> ids, found |-> defs, calls |-> calls]
    IN IF ~Truthy(ou_name)
       THEN [defs |-> defs, exc |-> None, entry |-> entry(FALSE, <<>>, <<>>)]  \* continue
       ELSE LET accounts    == get_accounts_by_ou(ou, F)
                account_ids == [i \in 1..Len(accounts) |-> accounts[i].Id]
            IN IF account_ids # <<>>
               THEN LET r == create_or_update_cost_category(
                                [defs |-> defs, failing |-> FailingFor(ou, F)],
                                ou_name, account_ids)
                    IN [defs |-> r.defs, exc |-> r.exc,
                        entry |-> entry(TRUE, account_ids, r.calls)]
               ELSE [defs |-> defs, exc |-> None,
                     entry |-> entry(TRUE, account_ids, <<>>)]

\* lines 102-103: the items of the pages that arrive, in order, until an
\* exception leaves an iteration.
RECURSIVE Loop(_, _, _, _)
Loop(items, defs, lg, F) ==
    IF items = <<>> THEN [defs |-> defs, log |-> lg, exc |-> None]
    ELSE LET b == LoopBody(Head(items), defs, F)
         IN IF b.exc # None
            THEN [defs |-> b.defs, log |-> Append(lg, b.entry), exc |-> b.exc]
            ELSE Loop(Tail(items), b.defs, Append(lg, b.entry), F)

lambda_handler(event, context, F) ==
    IF Point("list_roots", Root, 0) \in F
    THEN [defs |-> store, log |-> <<>>, response |-> Response500(ErrorText("list_roots"))]
    ELSE LET pages == Paginate(ListChildren(Root))
             pf    == FirstFail("list_children", Root, Len(pages), F)
             r     == Loop(Arrived(pages, pf), store, <<>>, F)
         IN [defs |-> r.defs, log |-> r.log,
             response |-> IF r.exc # None THEN Response500(r.exc)
                          ELSE IF pf # 0 THEN Response500(ErrorText("list_children"))
                          ELSE Response200]

\* ------------------------------------------------------- failure patterns
RECURSIVE UpTo(_, _)
UpTo(P, k) ==
    IF k = 0 THEN {{}}
    ELSE LET S == UpTo(P, k - 1) IN S \cup {s \cup {x} : s \in S, x \in P}

\* The requests get_accounts_by_ou can make in the current directory.
CollectPoints ==
    UNION {
        {Point("list_accounts_for_parent", o, p) : p \in 1..NumPages(ListAccounts(o))}
        \cup {Point("list_children", o, p) : p \in 1..NumPages(ListChildren(o))}
        : o \in {o \in OUs : ouParent[o] # Gone}}

TopLevel == {o \in OUs : ouParent[o] = Root}

\* The requests one run of lambda_handler can make in the current directory.
RunPoints ==
    {Point("list_roots", Root, 0)}
    \cup {Point("list_children", Root, p) : p \in 1..NumPages(ListChildren(Root))}
    \cup {Point(op, o, 0) :
            op \in {"describe_organizational_unit", "list_cost_category_definitions",
                    "create_cost_category_definition", "update_cost_category_definition"},
            o \in TopLevel}
    \cup CollectPoints

\* ------------------------------------------------------------------ init
Shapes == {f \in [OUs -> {Root} \cup OUs] : \A o \in OUs : f[o] < o}

AccountRecords(parents) ==
    {[Name |-> "acct", Status |-> s, Parent |-> p] : s \in Statuses, p \in parents}

StaleRules == BuildRules("Legacy", <<9>>)

InitialStores ==
    { <<>>,
      << [Name |-> "Project", CostCategoryArn |-> 1, Rules |-> StaleRules,
          DefaultValue |-> "None"],
         [Name |-> "OU-Engineering", CostCategoryArn |-> 2, Rules |-> StaleRules,
          DefaultValue |-> "Other"] >> }

InitRest ==
    /\ store0 = <<>>
    /\ log = <<>>
    /\ outcome = [statusCode |-> 0, body |-> ""]
    /\ runs = 0
    /\ arg = Root
    /\ fset = {}
    /\ result = <<>>

\* ---------------------------------------- get_accounts_by_ou called alone
InitCollect ==
    /\ ouParent \in Shapes
    /\ ouName = [o \in OUs |-> "Finance"]
    /\ acct \in [Accounts -> AccountRecords(OUs)]
    /\ store = <<>>
    /\ InitRest

Collect(o, F) ==
    /\ arg' = o
    /\ fset' = F
    /\ result' = get_accounts_by_ou(o, F)
    /\ UNCHANGED <<dirVars, runVars>>

NextCollect ==
    arg = Root /\ \E o \in OUs : \E F \in UpTo(CollectPoints, MaxFailures) : Collect(o, F)

SpecCollect == InitCollect /\ [][NextCollect]_vars

\* ------------------------------------------------ runs of lambda_handler
Run(F) ==
    \E r \in {lambda_handler("event", "context", F)} :
       /\ store' = r.defs
       /\ store0' = store
       /\ log' = r.log
       /\ outcome' = r.response
       /\ runs' = runs + 1
       /\ UNCHANGED <<dirVars, arg, result>>

\* One run, at most MaxRunFailures of its requests failing.
InitRun ==
    /\ ouParent \in Shapes
    /\ ouName \in {f \in [OUs -> OUNames] : f[1] = "Finance" /\ f[2] = "Engineering"}
    /\ acct \in {f \in [Accounts -> AccountRecords(OUs)] :
                    \A a, b \in Accounts : a <= b => f[a].Parent <= f[b].Parent}
    /\ store \in InitialStores
    /\ InitRest

NextRun ==
    runs = 0 /\ \E F \in UpTo(RunPoints, MaxRunFailures) : Run(F) /\ fset' = F

SpecRun == InitRun /\ [][NextRun]_vars

\* Runs in succession, the directory unchanged and no request failing.
InitTwice ==
    /\ ouParent \in Shapes
    /\ ouName \in {f \in [OUs -> OUNames] : f[1] = "Finance"}
    /\ acct \in [Accounts -> AccountRecords(OUs)]
    /\ store \in InitialStores
    /\ InitRest

NextTwice == runs < MaxRuns /\ Run({}) /\ UNCHANGED fset

SpecTwice == InitTwice /\ [][NextTwice]_vars

\* Runs interleaved with changes of the directory: OUs removed or renamed,
\* accounts moved or deactivated (or the reverse).  The record of the latest
\* run is dropped when the directory changes.
Fn3(a, b, c) == (1 :> a @@ 2 :> b @@ 3 :> c)

DriftDirs ==
    {d \in [ouParent : {Fn3(Root, Root, Root), Fn3(Root, 1, Root),
                        Fn3(Root, Root, Gone), Fn3(Root, 1, Gone)},
            ouName   : {Fn3("Finance", "Engineering", "Sales"),
                        Fn3("Sales", "Engineering", "Sales")},
            acct     : {f \in [Accounts -> AccountRecords({1, 2, 3})] :
                           /\ f[1].Parent = 1
                           /\ f[2].Parent = 2 /\ f[2].Status = "ACTIVE"
                           /\ f[3].Parent \in {2, 3} /\ f[3].Status = "ACTIVE"}] :
        \A a \in Accounts : d.ouParent[d.acct[a].Parent] # Gone}

InitDrift ==
    /\ \E d \in DriftDirs :
          ouParent = d.ouParent /\ ouName = d.ouName /\ acct = d.acct
    /\ store \in InitialStores
    /\ InitRest

Reorganize(d) ==
    /\ <<d.ouParent, d.ouName, d.acct>> # <<ouParent, ouName, acct>>
    /\ ouParent' = d.ouParent
    /\ ouName' = d.ouName
    /\ acct' = d.acct
    /\ store0' = store
    /\ log' = <<>>
    /\ outcome' = [statusCode |-> 0, body |-> ""]
    /\ UNCHANGED <<store, runs, arg, fset, result>>

\* A run with at most one of its requests failing.
DriftRun ==
    runs < MaxRuns /\ \E F \in UpTo(RunPoints, 1) : Run(F) /\ UNCHANGED fset

NextDrift == DriftRun \/ \E d \in DriftDirs : Reorganize(d)

SpecDrift == InitDrift /\ [][NextDrift]_vars

\* ================================================================ properties
\* The directory read as relations, independently of the traversal.
RECURSIVE Under(_, _)
Under(u, o) == u = o \/ (ouParent[u] \in OUs /\ Under(ouParent[u], o))

Ids(accounts) == {accounts[i].Id : i \in 1..Len(accounts)}

NoDuplicates(accounts) == Cardinality(Ids(accounts)) = Len(accounts)

ActiveDirect(o) ==
    {a \in Accounts : acct[a].Parent = o /\ acct[a].Status = "ACTIVE"}

ActiveUnder(o) ==
    {a \in Accounts : /\ acct[a].Status = "ACTIVE"
                      /\ acct[a].Parent \in OUs
                      /\ Under(acct[a].Parent, o)}

\* The page of its parent's listing an account / a child OU is on.
AccountPage(a) ==
    Cardinality({b \in Accounts : acct[b].Parent = acct[a].Parent /\ b < a})
        \div PageSize + 1

ChildPage(k) ==
    Cardinality({j \in OUs : ouParent[j] = ouParent[k] /\ j < k}) \div PageSize + 1

AccountFail(o, F) ==
    FirstFail("list_accounts_for_parent", o, NumPages(ListAccounts(o)), F)

ChildFail(o, F) == FirstFail("list_children", o, NumPages(ListChildren(o)), F)

\* The ACTIVE direct accounts of o on pages that arrive before a failure.
ArrivedDirect(o, F) ==
    {a \in ActiveDirect(o) : AccountFail(o, F) = 0 \/ AccountPage(a) < AccountFail(o, F)}

\* The child OUs of o that a traversal of o goes on to visit.
VisitedKids(o, F) ==
    IF AccountFail(o, F) # 0 THEN {}
    ELSE {k \in OUs : /\ ouParent[k] = o
                      /\ (ChildFail(o, F) = 0 \/ ChildPage(k) < ChildFail(o, F))}

\* u is visited by the traversal that starts at o.
RECURSIVE Visited(_, _, _)
Visited(u, o, F) ==
    \/ u = o
    \/ /\ ouParent[u] \in OUs
       /\ u \in VisitedKids(ouParent[u], F)
       /\ Visited(ouParent[u], o, F)

Called == arg # Root

\* C2: with no listing failing in the subtree of o, get_accounts_by_ou(o)
\* returns, without duplication, exactly the ACTIVE accounts owned by o or by
\* a descendant OU of o.
C2_TransitiveClosure ==
    (Called /\ \A p \in fset : ~Under(p.id, arg))
        => /\ Ids(result) = ActiveUnder(arg)
           /\ NoDuplicates(result)

\* C2 witness: the chain 1 -> 2 -> 3, one ACTIVE account in each OU, collected
\* from the top without failures.
C2_Witness ==
    /\ arg = 1 /\ fset = {}
    /\ ouParent = (1 :> Root @@ 2 :> 1 @@ 3 :> 2)
    /\ \A a \in Accounts : acct[a].Parent = a /\ acct[a].Status = "ACTIVE"
    /\ Ids(result) = {1, 2, 3}

\* C8 as claimed: when the listing of o's direct accounts fails, the result
\* is what it would be had o no direct accounts: the accounts of its
\* descendants, still collected.
C8_AsClaimed ==
    (Called /\ AccountFail(arg, fset) # 0)
        => LET cpages == Paginate(ListChildren(arg))
               kids   == Arrived(cpages, ChildFail(arg, fset))
           IN result = Concat([i \in 1..Len(kids) |-> get_accounts_by_ou(kids[i], fset)])

\* C8 amended: when the listing of o's direct accounts fails, the call returns
\* normally with exactly the ACTIVE direct accounts of the pages that arrived
\* before the failure; no child OU of o is listed or visited.
C8_AccountFailureTruncates ==
    (Called /\ AccountFail(arg, fset) # 0)
        => /\ Ids(result) = ArrivedDirect(arg, fset)
           /\ NoDuplicates(result)
           /\ \A a \in Ids(result) : acct[a].Parent = arg

\* C8 witness: the second account page of o fails; the account of the first
\* page is returned and an ACTIVE account of a child OU is not.
C8_Witness ==
    /\ Called
    /\ AccountFail(arg, fset) = 2
    /\ result # <<>>
    /\ \E a \in ActiveUnder(arg) : acct[a].Parent # arg /\ a \notin Ids(result)

\* C9: when a child-OU listing fails during a traversal, the call still
\* returns, and returns exactly the ACTIVE accounts that arrived for every OU
\* visited: the OU's own accounts and those of the children listed before the
\* failure are kept, only the children not yet listed are left out, and the
\* other branches are still visited.
C9_ChildFailureKeepsCollected ==
    (Called /\ \E u \in OUs : Visited(u, arg, fset) /\ AccountFail(u, fset) = 0
                              /\ ChildFail(u, fset) # 0)
        => /\ Ids(result) =
                UNION {ArrivedDirect(u, fset) : u \in {v \in OUs : Visited(v, arg, fset)}}
           /\ NoDuplicates(result)
           /\ (AccountFail(arg, fset) = 0 => ActiveDirect(arg) \subseteq Ids(result))

\* C9 witness: OU 1 has the children 2 and 3; the page listing 3 fails, after
\* 2 was visited: the accounts of 1 and 2 are returned, that of 3 is not.
C9_Witness ==
    /\ arg = 1
    /\ ouParent = (1 :> Root @@ 2 :> 1 @@ 3 :> 1)
    /\ \A a \in Accounts : acct[a].Parent = a /\ acct[a].Status = "ACTIVE"
    /\ ChildFail(1, fset) = 2
    /\ Ids(result) = {1, 2}

\* ------------------------------------------------------------ one run
Ran == runs > 0

Entries == {log[i] : i \in 1..Len(log)}

IsWrite(c) ==
    c.op \in {"create_cost_category_definition", "update_cost_category_definition"}

\* rules is the single rule mapping LINKED_ACCOUNT EQUALS ids to value name.
SingleRule(rules, name, ids) ==
    /\ Len(rules) = 1
    /\ rules[1].Value = name
    /\ rules[1].Rule.Dimensions.Key = "LINKED_ACCOUNT"
    /\ rules[1].Rule.Dimensions.Values = ids
    /\ rules[1].Rule.Dimensions.MatchOptions = <<"EQUALS">>

StoreFailed(e) == \E c \in Range(e.calls) : ~c.ok

RootFailure == Point("list_roots", Root, 0) \in fset \/ ChildFail(Root, fset) # 0

\* C3: whatever listing fails, no account that is not ACTIVE is in a list
\* get_accounts_by_ou returns to lambda_handler, nor in the account ids of a
\* create or update request.
C3_OnlyActiveAccounts ==
    \A e \in Entries :
        /\ \A a \in Range(e.account_ids) : acct[a].Status = "ACTIVE"
        /\ \A c \in Range(e.calls) :
              IsWrite(c) =>
                 \A a \in Range(c.Rules[1].Rule.Dimensions.Values) :
                    acct[a].Status = "ACTIVE"

\* C3 witness: a listing failed midway, the OU reconciled has a suspended
\* account in its subtree, and a write was issued for it.
C3_Witness ==
    \E e \in Entries :
        /\ \E c \in Range(e.calls) : IsWrite(c) /\ c.ok
        /\ \E a \in Accounts : /\ acct[a].Status = "SUSPENDED"
                               /\ Under(acct[a].Parent, e.ou)
                               /\ Visited(acct[a].Parent, e.ou, fset)
        /\ Range(e.account_ids) # ActiveUnder(e.ou)

\* C4: when the listing holds a definition named exactly "OU-"+ou_name, the
\* call issues an update with that definition's ARN and the new single-rule
\* rule set, and no create; when it holds none, the call issues a create with
\* that name, the rule set and default value "Other", and no update.
C4_CreateOrUpdateBranch ==
    \A e \in Entries :
        (e.calls # <<>> /\ e.calls[1].ok) =>
            LET name  == "OU-" \o e.ou_name
                match == {d \in Range(e.found) : d.Name = name}
                w     == e.calls[2]
            IN /\ e.calls[1].op = "list_cost_category_definitions"
               /\ Len(e.calls) = 2
               /\ SingleRule(w.Rules, e.ou_name, e.account_ids)
               /\ match # {} =>
                     /\ w.op = "update_cost_category_definition"
                     /\ w.CostCategoryArn \in {d.CostCategoryArn : d \in match}
               /\ match = {} =>
                     /\ w.op = "create_cost_category_definition"
                     /\ w.Name = name
                     /\ w.DefaultValue = "Other"

\* C4 witness: one run that updates the definition of one OU, found in a
\* store that holds other definitions too, and creates that of another.
C4_Witness ==
    /\ \E e \in Entries :
          /\ Len(e.calls) = 2 /\ e.calls[2].op = "update_cost_category_definition"
          /\ e.calls[2].ok
          /\ Len(e.found) >= 2
    /\ \E e \in Entries :
          /\ Len(e.calls) = 2 /\ e.calls[2].op = "create_cost_category_definition"
          /\ e.calls[2].ok

\* C5: a failed store request for one top-level OU never leaves
\* create_or_update_cost_category: the run only ends early on a directory
\* failure at the root, every top-level OU listed is iterated, each later OU
\* with a non-empty account list has its reconciliation attempted, and when
\* its own requests succeed its definition is written.
C5_StoreFailureIsolated ==
    (Ran /\ \E e \in Entries : StoreFailed(e)) =>
        /\ outcome.statusCode = 500 => RootFailure
        /\ [i \in 1..Len(log) |-> log[i].ou]
             = Arrived(Paginate(ListChildren(Root)), ChildFail(Root, fset))
        /\ \A i, j \in 1..Len(log) :
              (i < j /\ StoreFailed(log[i]) /\ log[j].account_ids # <<>>) =>
                 /\ log[j].calls # <<>>
                 /\ ~StoreFailed(log[j]) =>
                       /\ IsWrite(log[j].calls[Len(log[j].calls)])
                       /\ \E d \in Range(store) :
                             /\ d.Name = "OU-" \o log[j].ou_name
                             /\ (\A k \in (j + 1)..Len(log) :
                                    log[k].ou_name # log[j].ou_name)
                                => SingleRule(d.Rules, log[j].ou_name,
                                              log[j].account_ids)

\* C5 witness: the store request for the first top-level OU failed, the second
\* was reconciled and the run reported success.
C5_Witness ==
    /\ Len(log) >= 2
    /\ StoreFailed(log[1])
    /\ log[2].calls # <<>> /\ ~StoreFailed(log[2])
    /\ \E d \in Range(store) :
          /\ d.Name = "OU-" \o log[2].ou_name
          /\ SingleRule(d.Rules, log[2].ou_name, log[2].account_ids)
    /\ outcome.statusCode = 200

\* C6: for a top-level OU whose collected account list is empty no request is
\* made to the store; create_or_update_cost_category is only ever called with
\* a non-empty list.
C6_EmptyOUSkipped ==
    \A e \in Entries :
        /\ e.account_ids = <<>> => e.calls = <<>>
        /\ \A c \in Range(e.calls) :
              IsWrite(c) => c.Rules[1].Rule.Dimensions.Values # <<>>

\* C6 witness: one run met an OU with no ACTIVE account under it and an OU
\* whose account listing failed; neither was reconciled, a third OU was.
C6_Witness ==
    /\ \E e \in Entries :
          e.collected /\ e.account_ids = <<>> /\ e.calls = <<>> /\ ActiveUnder(e.ou) = {}
    /\ \E e \in Entries :
          e.collected /\ e.account_ids = <<>> /\ e.calls = <<>> /\ ActiveUnder(e.ou) # {}
    /\ \E e \in Entries : e.calls # <<>>

\* C7: the run returns status 500, the error text in its message, exactly when
\* list_roots or the listing of the root's child OUs fails, and status 200
\* otherwise, whatever failed for single OUs; a top-level OU whose name lookup
\* fails is skipped: nothing is collected and no store request is made for it.
C7_RunOutcome ==
    Ran =>
        /\ Point("list_roots", Root, 0) \in fset =>
              outcome = [statusCode |-> 500,
                         body |-> "\"Error: ClientError calling list_roots\""]
        /\ (Point("list_roots", Root, 0) \notin fset /\ ChildFail(Root, fset) # 0) =>
              outcome = [statusCode |-> 500,
                         body |-> "\"Error: ClientError calling list_children\""]
        /\ ~RootFailure =>
              outcome = [statusCode |-> 200,
                         body |-> "\"Cost categories updated successfully\""]
        /\ \A e \in Entries :
              Point("describe_organizational_unit", e.ou, 0) \in fset =>
                 ~e.collected /\ e.account_ids = <<>> /\ e.calls = <<>>

\* C7 witness: the name lookup of a top-level OU with ACTIVE accounts failed,
\* the OU was skipped, another was reconciled, and the run returned 200.
C7_Witness ==
    /\ outcome.statusCode = 200
    /\ \E e \in Entries :
          /\ Point("describe_organizational_unit", e.ou, 0) \in fset
          /\ ActiveUnder(e.ou) # {}
          /\ ~e.collected
    /\ \E e \in Entries : \E c \in Range(e.calls) : IsWrite(c) /\ c.ok

\* ------------------------------------------------- runs in succession
DefsNamed(defs, name) == {i \in 1..Len(defs) : defs[i].Name = name}

\* C1: after a second run against the unchanged directory, no request
\* failing, the store holds exactly one definition "OU-"+name for every
\* top-level OU with an ACTIVE account in its subtree, with the rules it had
\* after the first run, and the second run issued no create.
C1_Idempotent ==
    runs >= 2 =>
        /\ \A o \in TopLevel :
              ActiveUnder(o) # {} =>
                 LET name == "OU-" \o ouName[o]
                 IN /\ Cardinality(DefsNamed(store, name)) = 1
                    /\ Cardinality(DefsNamed(store0, name)) = 1
                    /\ \A i \in DefsNamed(store0, name), j \in DefsNamed(store, name) :
                          store0[i].Rules = store[j].Rules
        /\ \A e \in Entries : \A c \in Range(e.calls) :
              c.op # "create_cost_category_definition"

\* C1 witness: two runs over three top-level OUs with ACTIVE accounts, two
\* of them of the same name; the second run updated each and changed nothing.
C1_Witness ==
    /\ runs = 2
    /\ TopLevel = OUs
    /\ \A o \in OUs : ActiveUnder(o) # {}
    /\ ouName[3] = ouName[1]
    /\ \A e \in Entries :
          \E c \in Range(e.calls) : c.op = "update_cost_category_definition" /\ c.ok
    /\ Len(log) = 3
    /\ store = store0

\* ------------------------------------------ runs and directory changes
TouchedNames(lg) ==
    {"OU-" \o ouName[lg[i].ou] : i \in {j \in 1..Len(lg) : lg[j].account_ids # <<>>}}

\* C10: across runs and directory changes no definition is ever deleted (its
\* name and ARN stay in the store), and a run leaves every definition
\* unchanged whose name is not "OU-"+name of a current top-level OU with a
\* non-empty collected account list.
C10_NoDeletionAndFrame ==
    [][\A d \in Range(store) :
          \E d2 \in Range(store') :
             /\ d2.Name = d.Name
             /\ d2.CostCategoryArn = d.CostCategoryArn
             /\ d.Name \notin TouchedNames(log') => d2 = d]_vars

\* C10 witness: OU 3 ("Sales") was removed and OU 1 ("Finance") has no ACTIVE
\* account left; a later run updated OU 2 only, and the definitions of the
\* two others are still there with the rules of the earlier run.
C10_Witness ==
    /\ runs = 2
    /\ ouParent[3] = Gone
    /\ ouName[1] = "Finance"
    /\ ActiveUnder(1) = {}
    /\ \E e \in Entries : e.ou = 2 /\ \E c \in Range(e.calls) : IsWrite(c) /\ c.ok
    /\ \E d \in Range(store) : d.Name = "OU-Sales" /\ SingleRule(d.Rules, "Sales", <<3>>)
    /\ \E d \in Range(store) : d.Name = "OU-Finance" /\ SingleRule(d.Rules, "Finance", <<1>>)

====
